---- MODULE Spec2Model ----
(***************************************************************************)
(* Connection configuration assembly of the PostgreSQL provider            *)
(* (providerConfigure, validateExpectedVersion) and the external-process   *)
(* executor getCommandOutput used for command-derived passwords.           *)
(*                                                                         *)
(* Strings are sequences of one-character strings, so that formatting,     *)
(* splitting and trimming are computed and not assumed.                    *)
(***************************************************************************)
EXTENDS Integers, Sequences, FiniteSets, TLC

VARIABLES
    pc,         \* position of the configuration event
    d,          \* *schema.ResourceData: the raw attributes
    diags,      \* errors returned by the schema's ValidateFunc
    result,     \* (interface{}, error) returned by providerConfigure
    rng,        \* state of the process-wide math/rand generator
    derived,    \* TunneledPort derived by each assembly of this process, in order
    assemblies, \* number of assemblies run by this process
    ctxDone,    \* the merged context of the assembly is cancelled
    call,       \* arguments of the running getCommandOutput call
    child,      \* the child process of cmd.Run
    stdout,     \* bytes.Buffer stdout
    stderr,     \* bytes.Buffer stderr
    exitCode,   \* exit status of the child, -1 when a signal ended it
    runErr,     \* err of cmd.Run
    spawned,    \* child processes started during this assembly
    ret,        \* (string, error) returned by getCommandOutput
    password,   \* the resolved password
    error       \* the error password resolution ended in

vars == <<pc, d, diags, result, rng, derived, assemblies, ctxDone, call, child,
          stdout, stderr, exitCode, runErr, spawned, ret, password, error>>

\* ------------------------------------------------------------------ bounds
\* longest expected_version string drawn
MaxVerLen == 3
\* most characters the child writes to its standard output
MaxOut == 2
\* most characters the child writes to its standard error
MaxErr == 1
\* assemblies run in one process
MaxAssemblies == 3
\* cap of the spawn counter
MaxSpawn == 3

\* --------------------------------------------------------------- constants
defaultProviderMaxOpenConnections == 20
defaultExpectedPostgreSQLVersion == <<"9", ".", "0", ".", "0">>
defaultConnectTimeout == 180
defaultPort == 5432
MinTunnelPort == 1024
MaxTunnelPort == 65535

\* ----------------------------------------------------------------- strings
Nil == [kind |-> "nil"]
Empty == <<>>
Digit == <<"0", "1", "2", "3", "4", "5", "6", "7", "8", "9">>
Numbers == {Digit[i] : i \in 1..10}
DigitVal(c) == (CHOOSE i \in 1..10 : Digit[i] = c) - 1

RECURSIVE Strings(_, _)
Strings(chars, n) ==
    IF n = 0 THEN {Empty}
    ELSE LET shorter == Strings(chars, n - 1)
         IN  shorter \cup {Append(s, c) : s \in shorter, c \in chars}

\* strings.TrimSpace, on the leading and the trailing side
RECURSIVE TrimSpace(_)
TrimSpace(s) ==
    IF s = Empty THEN s
    ELSE IF Head(s) = " " THEN TrimSpace(Tail(s))
    ELSE IF s[Len(s)] = " " THEN TrimSpace(SubSeq(s, 1, Len(s) - 1))
    ELSE s

\* strings.TrimPrefix(s, p) for a one-character prefix
TrimPrefix(s, p) == IF s # Empty /\ Head(s) = p THEN Tail(s) ELSE s

\* strings.TrimLeft(s, "0")
RECURSIVE TrimLeftZero(_)
TrimLeftZero(s) ==
    IF s # Empty /\ Head(s) = "0" THEN TrimLeftZero(Tail(s)) ELSE s

\* index of the first sep in s, 0 when there is none
IndexOf(s, sep) ==
    IF \E i \in 1..Len(s) : s[i] = sep
    THEN CHOOSE i \in 1..Len(s) : s[i] = sep /\ \A j \in 1..(i - 1) : s[j] # sep
    ELSE 0

\* strings.SplitN(s, sep, n), n >= 1
RECURSIVE SplitN(_, _, _)
SplitN(s, sep, n) ==
    LET i == IndexOf(s, sep)
    IN  IF n = 1 \/ i = 0 THEN <<s>>
        ELSE <<SubSeq(s, 1, i - 1)>> \o SplitN(SubSeq(s, i + 1, Len(s)), sep, n - 1)

\* strings.Join(parts, sep)
RECURSIVE Join(_, _)
Join(parts, sep) ==
    IF parts = <<>> THEN Empty
    ELSE IF Len(parts) = 1 THEN parts[1]
    ELSE parts[1] \o <<sep>> \o Join(Tail(parts), sep)

ContainsAny(s, chars) == \E i \in 1..Len(s) : s[i] \in chars
ContainsOnly(s, chars) == \A i \in 1..Len(s) : s[i] \in chars
HasLeadingZeroes(s) == Len(s) > 1 /\ s[1] = "0"

\* strconv.ParseUint(s, 10, 64) of a string of digits
RECURSIVE ParseUint(_)
ParseUint(s) ==
    IF s = Empty THEN 0
    ELSE 10 * ParseUint(SubSeq(s, 1, Len(s) - 1)) + DigitVal(s[Len(s)])

\* fmt.Sprintf("%d", n) for n >= 0
RECURSIVE Itoa(_)
Itoa(n) == IF n < 10 THEN <<Digit[n + 1]>> ELSE Itoa(n \div 10) \o <<Digit[(n % 10) + 1]>>

\* ------------------------------------------------------------------ semver
ZeroVersion == [Major |-> 0, Minor |-> 0, Patch |-> 0]
SemverErr(msg) == [kind |-> "semver", msg |-> msg]

\* one numeric element of Major.Minor.Patch
NumericOK(p) == p # Empty /\ ContainsOnly(p, Numbers) /\ ~HasLeadingZeroes(p)

\* semver.Parse, for strings without pre-release and build metadata
Parse(s) ==
    LET parts == SplitN(s, ".", 3)
    IN  IF s = Empty THEN [v |-> ZeroVersion, err |-> SemverErr("Version string empty")]
        ELSE IF Len(parts) # 3
        THEN [v |-> ZeroVersion, err |-> SemverErr("No Major.Minor.Patch elements found")]
        ELSE IF ~NumericOK(parts[1])
        THEN [v |-> ZeroVersion, err |-> SemverErr("Invalid major")]
        ELSE IF ~NumericOK(parts[2])
        THEN [v |-> ZeroVersion, err |-> SemverErr("Invalid minor")]
        ELSE IF ~NumericOK(parts[3])
        THEN [v |-> ZeroVersion, err |-> SemverErr("Invalid patch")]
        ELSE [v |-> [Major |-> ParseUint(parts[1]), Minor |-> ParseUint(parts[2]),
                     Patch |-> ParseUint(parts[3])],
              err |-> Nil]

\* removal of leading zeros from one element, as ParseTolerant does it
StripZeros(p) ==
    IF Len(p) > 1
    THEN LET q == TrimLeftZero(p)
         IN  IF q = Empty \/ Head(q) \notin Numbers THEN <<"0">> \o q ELSE q
    ELSE p

RECURSIVE FillUp(_)
FillUp(parts) == IF Len(parts) < 3 THEN FillUp(Append(parts, <<"0">>)) ELSE parts

\* semver.ParseTolerant
ParseTolerant(str) ==
    LET s == TrimPrefix(TrimSpace(str), "v")
        raw == SplitN(s, ".", 3)
        parts == [i \in 1..Len(raw) |-> StripZeros(raw[i])]
    IN  IF Len(parts) < 3 /\ ContainsAny(parts[Len(parts)], {"+", "-"})
        THEN [v |-> ZeroVersion,
              err |-> SemverErr("Short version cannot contain PreRelease/Build meta data")]
        ELSE Parse(Join(FillUp(parts), "."))

\* ------------------------------------------------------- schema attributes
\* an attribute of the configuration: set or not, and its value
Unset == [set |-> FALSE, val |-> Empty]
SetTo(v) == [set |-> TRUE, val |-> v]

\* d.Get(key): the value, the schema's default when the key is not set
Get(attr, default) == IF attr.set THEN attr.val ELSE default

\* d.GetOk(key): ok only for a key set to a value that is not the zero value
GetOk(attr, zero) ==
    [val |-> IF attr.set THEN attr.val ELSE zero, ok |-> attr.set /\ attr.val # zero]

\* validateExpectedVersion with an error dropped
validateExpectedVersionSilent(v) == <<>>

\* validateExpectedVersion: the errors it returns for value v
validateExpectedVersion(v) ==
    IF ParseTolerant(v).err # Nil
    THEN <<[msg |-> "invalid version", value |-> v, cause |-> ParseTolerant(v).err]>>
    ELSE <<>>

\* ------------------------------------------------------- tunnel port (rand)
CharCode(c) ==
    IF c \in Numbers THEN 48 + DigitVal(c)
    ELSE IF c = "a" THEN 97
    ELSE IF c = "b" THEN 98
    ELSE 63

\* hash of the seed string handed to the generator
RECURSIVE HashString(_)
HashString(s) ==
    IF s = Empty THEN 7
    ELSE (31 * HashString(SubSeq(s, 1, Len(s) - 1)) + CharCode(s[Len(s)])) % 65521

\* one draw of the generator from state x
NextRand(x) == (75 * x + 74) % 65537

\* getRandomPort(seed): seeds the process-wide generator with the string and
\* draws one port of 1024..65535; old is the generator's state before the call
getRandomPort(seed, old) ==
    LET x == NextRand(HashString(seed))
    IN  [port |-> MinTunnelPort + (x % (MaxTunnelPort - MinTunnelPort + 1)), rng |-> x]

\* fmt.Sprintf("%s%d", host, port)
SeedString(host, port) == host \o Itoa(port)

\* ------------------------------------------------------- providerConfigure
\* the ssl mode with the deprecated attribute taking precedence
ResolveSSLModeLegacyFirst(attrs) ==
    IF attrs.ssl_mode # Empty THEN attrs.ssl_mode
    ELSE GetOk(attrs.sslmode, Empty).val

\* var sslMode string ... (sslmode by GetOk, else a non-empty ssl_mode)
ResolveSSLMode(attrs) ==
    IF GetOk(attrs.sslmode, Empty).ok
    THEN GetOk(attrs.sslmode, Empty).val
    ELSE IF attrs.ssl_mode # Empty THEN attrs.ssl_mode ELSE Empty

\* the Config literal with the static password left out
BaseConfigNoPassword(ctx, attrs, old) ==
    [Scheme |-> attrs.scheme, Host |-> attrs.host, Port |-> attrs.port,
     Username |-> attrs.username, Password |-> Empty,
     DatabaseUsername |-> attrs.database_username, Superuser |-> attrs.superuser,
     SSLMode |-> ResolveSSLMode(attrs), ApplicationName |-> "Terraform provider",
     ConnectTimeoutSec |-> attrs.connect_timeout, MaxConns |-> attrs.max_connections,
     ExpectedVersion |->
         ParseTolerant(Get(attrs.expected_version, defaultExpectedPostgreSQLVersion)).v,
     SSLRootCertPath |-> attrs.sslrootcert, JumpHost |-> attrs.jumphost,
     TunneledPort |-> getRandomPort(SeedString(attrs.host, attrs.port), old).port,
     PasswordCommand |-> attrs.password_command, ctx |-> ctx, SSLClientCert |-> Nil]

\* the Config literal with the server port used as the tunnel port
BaseConfigServerPort(ctx, attrs, old) ==
    [Scheme |-> attrs.scheme, Host |-> attrs.host, Port |-> attrs.port,
     Username |-> attrs.username, Password |-> Get(attrs.password, Empty),
     DatabaseUsername |-> attrs.database_username, Superuser |-> attrs.superuser,
     SSLMode |-> ResolveSSLMode(attrs), ApplicationName |-> "Terraform provider",
     ConnectTimeoutSec |-> attrs.connect_timeout, MaxConns |-> attrs.max_connections,
     ExpectedVersion |->
         ParseTolerant(Get(attrs.expected_version, defaultExpectedPostgreSQLVersion)).v,
     SSLRootCertPath |-> attrs.sslrootcert, JumpHost |-> attrs.jumphost,
     TunneledPort |-> attrs.port,
     PasswordCommand |-> attrs.password_command, ctx |-> ctx, SSLClientCert |-> Nil]

\* config := Config{...}: the error of ParseTolerant is dropped (version, _ :=)
BaseConfig(ctx, attrs, old) ==
    [Scheme |-> attrs.scheme, Host |-> attrs.host, Port |-> attrs.port,
     Username |-> attrs.username, Password |-> Get(attrs.password, Empty),
     DatabaseUsername |-> attrs.database_username, Superuser |-> attrs.superuser,
     SSLMode |-> ResolveSSLMode(attrs), ApplicationName |-> "Terraform provider",
     ConnectTimeoutSec |-> attrs.connect_timeout, MaxConns |-> attrs.max_connections,
     ExpectedVersion |->
         ParseTolerant(Get(attrs.expected_version, defaultExpectedPostgreSQLVersion)).v,
     SSLRootCertPath |-> attrs.sslrootcert, JumpHost |-> attrs.jumphost,
     TunneledPort |-> getRandomPort(SeedString(attrs.host, attrs.port), old).port,
     PasswordCommand |-> attrs.password_command, ctx |-> ctx, SSLClientCert |-> Nil]

\* the client-certificate step with the two paths exchanged
WithClientCertSwapped(config, attrs) ==
    IF attrs.clientcert # <<>>
    THEN [config EXCEPT !.SSLClientCert =
              [CertificatePath |-> attrs.clientcert[1].key,
               KeyPath |-> attrs.clientcert[1].cert]]
    ELSE config

\* if value, ok := d.GetOk("clientcert"); ok { config.SSLClientCert = ... }
WithClientCert(config, attrs) ==
    IF attrs.clientcert # <<>>
    THEN [config EXCEPT !.SSLClientCert =
              [CertificatePath |-> attrs.clientcert[1].cert,
               KeyPath |-> attrs.clientcert[1].key]]
    ELSE config

\* config.NewClient(database)
NewClient(config, database) == [config |-> config, databaseName |-> database]

\* providerConfigure(ctx, d): its only return is (client, nil)
providerConfigure(ctx, attrs, old) ==
    [client |-> NewClient(WithClientCert(BaseConfig(ctx, attrs, old), attrs), attrs.database),
     err |-> Nil]

\* --------------------------------------------------------- getCommandOutput
\* getCommandOutput returning what CombinedOutput would
getCommandOutputCombined(command, args, out, errb, err) ==
    IF err # Nil
    THEN [out |-> Empty,
          err |-> [kind |-> "failed to run", command |-> command, args |-> args,
                   stdout |-> out, stderr |-> errb, cause |-> err]]
    ELSE [out |-> out \o errb, err |-> Nil]

\* getCommandOutput returning the captured output beside the error
getCommandOutputPartial(command, args, out, errb, err) ==
    IF err # Nil
    THEN [out |-> out,
          err |-> [kind |-> "failed to run", command |-> command, args |-> args,
                   stdout |-> out, stderr |-> errb, cause |-> err]]
    ELSE [out |-> out, err |-> Nil]

\* getCommandOutput with the error of cmd.Run dropped
getCommandOutputNoError(command, args, out, errb, err) == [out |-> out, err |-> Nil]

\* getCommandOutput after cmd.Run returned err with the buffers out and errb
getCommandOutput(command, args, out, errb, err) ==
    IF err # Nil
    THEN [out |-> Empty,
          err |-> [kind |-> "failed to run", command |-> command, args |-> args,
                   stdout |-> out, stderr |-> errb, cause |-> err]]
    ELSE [out |-> out, err |-> Nil]

\* the error cmd.Run returns once the child is gone
RunError ==
    IF runErr # Nil THEN runErr
    ELSE IF child = "killed" THEN [kind |-> "signal: killed"]
    ELSE IF exitCode # 0 THEN [kind |-> "exit status", code |-> exitCode]
    ELSE Nil

\* the password taken from the command's output: one trailing newline removed
TrimNewline(s) ==
    IF s # Empty /\ s[Len(s)] = "\n" THEN SubSeq(s, 1, Len(s) - 1) ELSE s

\* ------------------------------------------------------------------- inputs
AssemblyCtx == "merged"
OutChars == {"s", "\n"}
ErrChars == {"e"}
ExitCodes == {0, 1}
VersionChars == {"0", "9", ".", "v", "x"}
Hosts == {<<"a">>, <<"a", "1">>}
Ports == {2, 12, defaultPort}
RngSeeds == {1, 2}
Block == [cert |-> <<"c">>, key |-> <<"k">>]

Attrs(host, port, pw, cmd, mode, legacy, cert, ver) ==
    [scheme |-> "postgres", host |-> host, port |-> port, database |-> "postgres",
     username |-> "postgres", password |-> pw, password_command |-> cmd,
     database_username |-> Empty, superuser |-> TRUE, sslmode |-> mode,
     ssl_mode |-> legacy, clientcert |-> cert, sslrootcert |-> <<"r">>,
     connect_timeout |-> defaultConnectTimeout,
     max_connections |-> defaultProviderMaxOpenConnections,
     expected_version |-> ver, jumphost |-> <<"j">>]

\* the configurations of the main specification
MainAttrs ==
    {Attrs(<<"a">>, defaultPort, pw, cmd, mode, legacy, cert, ver) :
        pw \in {Unset, SetTo(Empty), SetTo(<<"p">>)},
        cmd \in {Empty, <<"c">>},
        mode \in {Unset, SetTo(Empty), SetTo(<<"r">>)},
        legacy \in {Empty, <<"d">>},
        cert \in {<<>>, <<Block>>},
        ver \in {Unset, SetTo(<<"9">>), SetTo(<<"x">>)}}

\* every expected_version string up to MaxVerLen
VersionAttrs ==
    {Attrs(<<"a">>, defaultPort, pwcmd[1], pwcmd[2], Unset, Empty, <<>>, ver) :
        pwcmd \in {<<Unset, Empty>>, <<Unset, <<"c">>>>, <<SetTo(<<"p">>), <<"c">>>>},
        ver \in {Unset} \cup {SetTo(s) : s \in Strings(VersionChars, MaxVerLen)}}

\* host and port pairs, nothing else set
PortAttrs ==
    {Attrs(h, p, Unset, Empty, Unset, Empty, <<>>, Unset) : h \in Hosts, p \in Ports}

\* -------------------------------------------------------------------- state
InitWith(configs) ==
    /\ pc = "start"
    /\ d \in configs
    /\ diags = <<>>
    /\ result = Nil
    /\ rng \in RngSeeds
    /\ derived = <<>>
    /\ assemblies = 1
    /\ ctxDone = FALSE
    /\ call = Nil
    /\ child = "none"
    /\ stdout = Empty
    /\ stderr = Empty
    /\ exitCode = 0
    /\ runErr = Nil
    /\ spawned = 0
    /\ ret = Nil
    /\ password = Empty
    /\ error = Nil

Init == InitWith(MainAttrs)
VersionInit == InitWith(VersionAttrs)
PortInit == InitWith(PortAttrs)

procVars == <<call, child, stdout, stderr, exitCode, runErr, spawned, ret>>

\* schema validation: the ValidateFunc of expected_version runs on a set value
Validate ==
    /\ pc = "start"
    /\ diags' = IF d.expected_version.set
                THEN validateExpectedVersion(d.expected_version.val)
                ELSE <<>>
    /\ pc' = IF diags' = <<>> THEN "validated" ELSE "invalid"
    /\ UNCHANGED <<d, result, rng, derived, assemblies, ctxDone, procVars, password, error>>

\* provider.ConfigureFunc: providerConfigure on the merged context
Configure ==
    /\ pc = "validated"
    /\ result' = providerConfigure(AssemblyCtx, d, rng)
    /\ rng' = getRandomPort(SeedString(d.host, d.port), rng).rng
    /\ derived' = Append(derived,
           [host |-> d.host, port |-> d.port,
            tport |-> result'.client.config.TunneledPort])
    /\ pc' = "configured"
    /\ UNCHANGED <<d, diags, assemblies, ctxDone, procVars, password, error>>

\* the next provider configuration event of the same process
NewAssembly(h, p) ==
    /\ pc = "done"
    /\ assemblies < MaxAssemblies
    /\ assemblies' = assemblies + 1
    /\ d' = Attrs(h, p, Unset, Empty, Unset, Empty, <<>>, Unset)
    /\ pc' = "start"
    /\ result' = Nil
    /\ password' = Empty
    /\ UNCHANGED <<diags, rng, derived, ctxDone, procVars, error>>

\* a static password is used as it is
ResolveStatic ==
    /\ pc = "configured"
    /\ result.client.config.Password # Empty
    /\ password' = result.client.config.Password
    /\ pc' = "done"
    /\ UNCHANGED <<d, diags, result, rng, derived, assemblies, ctxDone, procVars, error>>

\* neither a password nor a command: the password stays empty
ResolveNone ==
    /\ pc = "configured"
    /\ result.client.config.Password = Empty
    /\ result.client.config.PasswordCommand = Empty
    /\ password' = Empty
    /\ pc' = "done"
    /\ UNCHANGED <<d, diags, result, rng, derived, assemblies, ctxDone, procVars, error>>

\* the password command is handed to getCommandOutput with the context of the Config
ResolveCommand ==
    /\ pc = "configured"
    /\ result.client.config.Password = Empty
    /\ result.client.config.PasswordCommand # Empty
    /\ call' = [ctx |-> result.client.config.ctx,
                command |-> result.client.config.PasswordCommand, args |-> <<>>]
    /\ pc' = "cmd_call"
    /\ UNCHANGED <<d, diags, result, rng, derived, assemblies, ctxDone, child, stdout,
                   stderr, exitCode, runErr, spawned, ret, password, error>>

\* cmd.Run: Start returns ctx.Err() for a context that is already done
CmdStartCancelled ==
    /\ pc = "cmd_call"
    /\ ctxDone
    /\ runErr' = [kind |-> "context canceled"]
    /\ pc' = "cmd_wait"
    /\ UNCHANGED <<d, diags, result, rng, derived, assemblies, ctxDone, call, child,
                   stdout, stderr, exitCode, spawned, ret, password, error>>

\* cmd.Run: the executable cannot be started
CmdStartFail ==
    /\ pc = "cmd_call"
    /\ runErr' = [kind |-> "executable file not found"]
    /\ pc' = "cmd_wait"
    /\ UNCHANGED <<d, diags, result, rng, derived, assemblies, ctxDone, call, child,
                   stdout, stderr, exitCode, spawned, ret, password, error>>

\* cmd.Run: the child is started with fresh buffers
CmdSpawn ==
    /\ pc = "cmd_call"
    /\ ~ctxDone
    /\ spawned < MaxSpawn
    /\ child' = "running"
    /\ spawned' = spawned + 1
    /\ stdout' = Empty
    /\ stderr' = Empty
    /\ pc' = "cmd_wait"
    /\ UNCHANGED <<d, diags, result, rng, derived, assemblies, ctxDone, call, exitCode,
                   runErr, ret, password, error>>

\* the child writes to cmd.Stdout
ChildStdout(c) ==
    /\ child = "running"
    /\ Len(stdout) < MaxOut
    /\ stdout' = Append(stdout, c)
    /\ UNCHANGED <<pc, d, diags, result, rng, derived, assemblies, ctxDone, call, child,
                   stderr, exitCode, runErr, spawned, ret, password, error>>

\* the child writes to cmd.Stderr
ChildStderr(c) ==
    /\ child = "running"
    /\ Len(stderr) < MaxErr
    /\ stderr' = Append(stderr, c)
    /\ UNCHANGED <<pc, d, diags, result, rng, derived, assemblies, ctxDone, call, child,
                   stdout, exitCode, runErr, spawned, ret, password, error>>

\* the child exits on its own
ChildExit(code) ==
    /\ child = "running"
    /\ child' = "exited"
    /\ exitCode' = code
    /\ UNCHANGED <<pc, d, diags, result, rng, derived, assemblies, ctxDone, call, stdout,
                   stderr, runErr, spawned, ret, password, error>>

\* the context is cancelled and no process is bound to it (exec.Command)
CtxCancelNoKill ==
    /\ ~ctxDone
    /\ pc \notin {"done", "failed", "invalid"}
    /\ ctxDone' = TRUE
    /\ UNCHANGED <<pc, d, diags, result, rng, derived, assemblies, call, child, stdout,
                   stderr, exitCode, runErr, spawned, ret, password, error>>

\* the context is cancelled: exec.CommandContext kills a child that still runs
CtxCancel ==
    /\ ~ctxDone
    /\ pc \notin {"done", "failed", "invalid"}
    /\ ctxDone' = TRUE
    /\ child' = IF child = "running" THEN "killed" ELSE child
    /\ exitCode' = IF child = "running" THEN -1 ELSE exitCode
    /\ UNCHANGED <<pc, d, diags, result, rng, derived, assemblies, call, stdout, stderr,
                   runErr, spawned, ret, password, error>>

\* cmd.Run run again after an error
CmdReturnRetry ==
    /\ pc = "cmd_wait"
    /\ child # "running"
    /\ child' = IF child \in {"exited", "killed"} THEN "reaped" ELSE child
    /\ ret' = IF RunError # Nil THEN ret
              ELSE getCommandOutput(call.command, call.args, stdout, stderr, RunError)
    /\ pc' = IF RunError # Nil THEN "cmd_call" ELSE "cmd_ret"
    /\ runErr' = Nil
    /\ exitCode' = 0
    /\ UNCHANGED <<d, diags, result, rng, derived, assemblies, ctxDone, call, stdout,
                   stderr, spawned, password, error>>

\* cmd.Run returns once the child is gone, and getCommandOutput returns
CmdReturn ==
    /\ pc = "cmd_wait"
    /\ child # "running"
    /\ child' = IF child \in {"exited", "killed"} THEN "reaped" ELSE child
    /\ runErr' = RunError
    /\ ret' = getCommandOutput(call.command, call.args, stdout, stderr, RunError)
    /\ pc' = "cmd_ret"
    /\ UNCHANGED <<d, diags, result, rng, derived, assemblies, ctxDone, call, stdout,
                   stderr, exitCode, spawned, password, error>>

\* the output of the command becomes the password, its error ends the resolution
ResolveFromCommand ==
    /\ pc = "cmd_ret"
    /\ password' = IF ret.err = Nil THEN TrimNewline(ret.out) ELSE password
    /\ error' = ret.err
    /\ pc' = IF ret.err = Nil THEN "done" ELSE "failed"
    /\ UNCHANGED <<d, diags, result, rng, derived, assemblies, ctxDone, procVars>>

Next ==
    \/ Validate
    \/ Configure
    \/ ResolveStatic
    \/ ResolveNone
    \/ ResolveCommand
    \/ CmdStartCancelled
    \/ CmdStartFail
    \/ CmdSpawn
    \/ \E c \in OutChars : ChildStdout(c)
    \/ \E c \in ErrChars : ChildStderr(c)
    \/ \E code \in ExitCodes : ChildExit(code)
    \/ CtxCancel
    \/ CmdReturn
    \/ ResolveFromCommand

Spec == Init /\ [][Next]_vars

\* every expected_version string, one configuration event
VersionSpec == VersionInit /\ [][Next]_vars

\* several configuration events of one process, host and port varying
PortNext ==
    \/ Validate
    \/ Configure
    \/ ResolveNone
    \/ \E h \in Hosts, p \in Ports : NewAssembly(h, p)

PortSpec == PortInit /\ [][PortNext]_vars

\* cmd.Run is synchronous: Start and Wait go on once they can; the context
\* watcher of exec.CommandContext runs; the child itself may never exit
LiveSpec ==
    /\ Init
    /\ [][Next]_vars
    /\ WF_vars(CmdStartCancelled \/ CmdStartFail \/ CmdSpawn)
    /\ WF_vars(CmdReturn)

\* ------------------------------------------------------------------ claims
Config == result.client.config
VersionParses ==
    ParseTolerant(Get(d.expected_version, defaultExpectedPostgreSQLVersion)).err = Nil
StaticPassword == d.password.set /\ d.password.val # Empty
CommandOnly == ~StaticPassword /\ d.password_command # Empty
Returned == ret # Nil
CommandFailed == Returned /\ ret.err # Nil
ExitedZero == spawned = 1 /\ child = "reaped" /\ exitCode = 0

\* C1: an expected_version that does not parse as a tolerant semantic version
\* ends the assembly in the validation error naming that value, and
\* providerConfigure never runs, so no descriptor (and no zero version) comes
\* out of it; a version that parses never fails the version step, and the
\* descriptor carries the parsed version.
C1_VersionValidationAborts ==
    /\ (~VersionParses /\ pc # "start") =>
           /\ pc = "invalid"
           /\ Len(diags) = 1
           /\ diags[1].value = d.expected_version.val
           /\ result = Nil
           /\ call = Nil
    /\ VersionParses => (pc # "invalid" /\ diags = <<>>)
    /\ result # Nil =>
           /\ VersionParses
           /\ Config.ExpectedVersion =
                  ParseTolerant(Get(d.expected_version, defaultExpectedPostgreSQLVersion)).v

C1_Witness ==
    /\ pc = "invalid"
    /\ d.expected_version.val = <<"9", ".", "x">>
    /\ diags # <<>>
    /\ result = Nil

C6_ExclusiveOutcomes ==
    Returned =>
        /\ (ret.err = Nil) <=> ExitedZero
        /\ ret.err = Nil =>
               /\ ret.out = stdout
               /\ \A i \in 1..Len(ret.out) : ret.out[i] \notin ErrChars
        /\ ret.err # Nil =>
               /\ ret.out = Empty
               /\ ret.err.command = call.command
               /\ ret.err.args = call.args
               /\ ret.err.stdout = stdout
               /\ ret.err.stderr = stderr
               /\ ret.err.cause = runErr
               /\ runErr # Nil

C6_Witness ==
    /\ Returned
    /\ ret.err # Nil
    /\ ret.err.cause = [kind |-> "exit status", code |-> 1]
    /\ ret.err.stdout = <<"s", "\n">>
    /\ ret.err.stderr = <<"e">>
    /\ ret.out = Empty

\* C7: once the context is cancelled while the call has not returned and the
\* child has not exited, the call returns with an error; and whenever the
\* call has returned, no child of it is running or waits to be reaped.
C7_CancellationReachesChild ==
    /\ [](Returned => child \in {"none", "reaped"})
    /\ ((pc \in {"cmd_call", "cmd_wait"} /\ ctxDone /\ child # "exited")
            ~> (CommandFailed /\ child \in {"none", "reaped"}))

C7_Witness ==
    /\ CommandFailed
    /\ ctxDone
    /\ ret.err.cause = [kind |-> "signal: killed"]
    /\ child = "reaped"

C9_AtMostOneSpawn ==
    /\ [](spawned <= 1)
    /\ [][CommandFailed => spawned' = spawned]_vars

C9_Witness ==
    /\ pc = "failed"
    /\ spawned = 1
    /\ exitCode = 1

\* C10: SSLClientCert is present exactly when a clientcert block is; its two
\* paths are the block's cert and key; every other field of the descriptor is
\* what the Config literal set.
C10_ClientCertOnly ==
    result # Nil =>
        /\ (Config.SSLClientCert # Nil) <=> (d.clientcert # <<>>)
        /\ d.clientcert # <<>> =>
               /\ Config.SSLClientCert.CertificatePath = d.clientcert[1].cert
               /\ Config.SSLClientCert.KeyPath = d.clientcert[1].key
        /\ [Config EXCEPT !.SSLClientCert = Nil] = BaseConfig(AssemblyCtx, d, rng)

C10_Witness ==
    /\ result # Nil
    /\ d.clientcert = <<Block>>
    /\ Config.SSLClientCert = [CertificatePath |-> <<"c">>, KeyPath |-> <<"k">>]

====
